---- MODULE Spec2Model ----
(***************************************************************************)
(* Model of st_app.py: the activity detail view (detail_view), the        *)
(* geofence gate (perform_action, haversine), creation of an activity     *)
(* (create_activity_view) and the GitHub-backed store (get_file_content,  *)
(* create_or_update_file) with Streamlit's process-wide read cache.       *)
(*                                                                         *)
(* One activity file is modelled.  Several browser sessions run the       *)
(* script against it.  A script run of a session is a sequence of steps:  *)
(*   callback (an on_click callback, run before the script body)          *)
(*   load     (line 257, get_file_content through the cache)              *)
(*   body     (lines 258-357: periodic logger, buttons, comment form)     *)
(* and steps of different sessions interleave, as Streamlit runs every    *)
(* session's script in a thread of its own.                               *)
(***************************************************************************)
EXTENDS Integers, Sequences, FiniteSets, TLC

\* ------------------------------------------------------------------ bounds
MaxTime == 26      \* the clock stops here
MaxLogs == 4       \* a session stops writing to a record that holds this many log entries

\* ------------------------------------------------------- program constants
CacheTTL == 60         \* @st.cache_data(ttl=60) on get_file_content
PeriodThreshold == 25  \* (datetime.now() - last_log_time).total_seconds() > 25
MinRadius == 50        \* st.number_input("Geofence Radius (meters)", min_value=50)

Sessions == {"s1", "s2"}

None == [nil |-> "None"]        \* Python's None
NoEntry == [nil |-> "NoEntry"]  \* no cache entry for the file
NoFile == [nil |-> "NoFile"]    \* the file does not exist in the repository (GET gives 404)

\* Seconds by which the environment lets time pass in one step: the two
\* sides of PeriodThreshold.
TickSteps == {PeriodThreshold, PeriodThreshold + 1}
Times == 0..MaxTime

\* Users.  check_password resolves "admin" to role admin and every other
\* user to the role users.json gives it; an unauthenticated visitor of a
\* shared link is the default {"username": "Public", "role": "public"}.
Admin == [username |-> "admin", role |-> "admin"]
Vendor == [username |-> "vendor@example.com", role |-> "vendor"]
Guest == [username |-> "guest@example.com", role |-> "public"]
Public == [username |-> "Public", role |-> "public"]

\* Geography.  Every point of the model lies on the meridian of the geofence
\* centre; a latitude is counted in metres of arc from the centre.
CenterLon == 0
CenterLat == 0
Radii == {MinRadius}
NoFix == [accuracy |-> None]   \* the component's value before a fix: no latitude in it
OnBoundary == [latitude |-> CenterLat + MinRadius, longitude |-> CenterLon]
Outside == [latitude |-> CenterLat + MinRadius + 1, longitude |-> CenterLon]
Fixes == {OnBoundary, Outside}
Locations == {NoFix} \cup Fixes

\* The ways a session is opened: main() passes read_only=True if the URL
\* carries activity_id, and otherwise shows the detail view to a logged-in
\* user only.  fixes are the positions the session's device reports when
\* its user shares the location.
Logins ==
  [user : {Admin, Vendor, Guest}, read_only : {FALSE}, fixes : SUBSET Fixes] \cup
  [user : {Public, Admin}, read_only : {TRUE}, fixes : {{}}]

\* The sessions of the specifications.
\* FieldCast: a vendor on the site and an admin at a desk.
\* SoloCast: an admin in the field, on and off the site, and a logged-in
\*   user whose role in users.json is neither admin nor vendor.
\* AuditCast: the admin account open in two browsers, one of them on site.
Field(u, fixes) == [user |-> u, read_only |-> FALSE, fixes |-> fixes]
FieldCast == [s \in Sessions |-> IF s = "s1" THEN Field(Vendor, {OnBoundary}) ELSE Field(Admin, {})]
SoloCast == [s \in Sessions |-> IF s = "s1" THEN Field(Admin, Fixes) ELSE Field(Guest, {})]
AuditCast == [s \in Sessions |-> IF s = "s1" THEN Field(Admin, {OnBoundary}) ELSE Field(Admin, {})]
\* ShareCast: an admin on site and a visitor of the shared link.
Shared == [user |-> Public, read_only |-> TRUE, fixes |-> {}]
ShareCast == [s \in Sessions |-> IF s = "s1" THEN Field(Admin, {OnBoundary}) ELSE Shared]

Abs(x) == IF x < 0 THEN -x ELSE x

\* haversine(lon1, lat1, lon2, lat2) for two points of one meridian:
\* dlon = 0, so a = sin(dlat/2)^2, c = 2*asin(|sin(dlat/2)|) = |dlat| and the
\* result c * r * 1000 is the arc |lat2 - lat1| in metres.
haversine(lon1, lat1, lon2, lat2) == Abs(lat2 - lat1)

VARIABLES
  now,        \* datetime.now(), in seconds
  remote,     \* the activity file in the GitHub repository, or NoFile
  cache,      \* st.cache_data's entry for get_file_content(filepath)
  login,      \* per session: the logged-in user and read_only
  pc,         \* per session: "idle", "callback", "load" or "body"
  click,      \* per session: the widget whose click the current run handles
  data,       \* per session: activity_data of the current / last script run
  sha,        \* per session: the sha read with activity_data
  location,   \* per session: the value of streamlit_geolocation()
  outcome     \* what the latest step other than a read did at the store

vars == <<now, remote, cache, login, pc, click, data, sha, location, outcome>>

\* ------------------------------------------------------------ the record
LogEntry(t, u, a) == [timestamp |-> t, user |-> u, action |-> a]
TrailPoint(t, loc) == [timestamp |-> t, coordinates |-> <<loc.longitude, loc.latitude>>]

\* The blob SHA GitHub returns with a file: a hash of the content, taken
\* to be collision-free.
BlobSha(content) == [blob |-> content]

\* new_activity_data, create_activity_view lines 374-384.
NewActivity(creator, radius) ==
  [ id |-> "uuid", geometry |-> <<CenterLon, CenterLat>>,
    vendor |-> Vendor.username, status |-> "Pending", createdAt |-> now,
    geofence_center |-> <<CenterLat, CenterLon>>, geofence_radius |-> radius,
    logs |-> <<LogEntry(now, creator, "Activity created.")>>,
    location_trail |-> <<>> ]

\* An activity file put into the repository without the geofence fields:
\* props.get('geofence_center') and props.get('geofence_radius') are falsy.
LegacyActivity ==
  [ id |-> "uuid", geometry |-> <<CenterLon, CenterLat>>,
    vendor |-> Vendor.username, status |-> "Pending", createdAt |-> 0,
    geofence_center |-> <<>>, geofence_radius |-> 0,
    logs |-> <<LogEntry(0, Admin.username, "Activity created.")>>,
    location_trail |-> <<>> ]

\* What a step did: the session (by), the operation (op) that reached the store,
\* the status it was applied to (from), the sha it sent (token), the
\* response (put) and the messages it showed (msgs).
NoOutcome ==
  [by |-> "none", op |-> "none", from |-> "none", put |-> "none", token |-> None, msgs |-> {}]

\* ------------------------------------------------------------- the store
\* The response of GitHub's PUT /contents/{path} to a request carrying the
\* blob sha shaArg (None when the request carries none): "ok" (200/201),
\* "conflict" (409, the sha is not the file's current one) or "error" (any
\* other RequestException: the network, authorization, a 5xx).  A request
\* without sha for a file that exists is answered by the remote one way or
\* the other.
PutOutcomes(shaArg) ==
  {"error"} \cup
  IF remote = NoFile THEN (IF shaArg = None THEN {"ok"} ELSE {"conflict"})
  ELSE IF shaArg = None THEN {"ok", "conflict"}
  ELSE IF shaArg = BlobSha(remote) THEN {"ok"}
  ELSE {"conflict"}

\* create_or_update_file with lines 75-76 left out: no request carries a sha.
create_or_update_file_blind(content, shaArg, out) ==
  /\ out \in PutOutcomes(None)
  /\ IF out = "ok"
       THEN /\ remote' = content
            /\ cache' = NoEntry
       ELSE UNCHANGED <<remote, cache>>

\* create_or_update_file with line 81 left out: the cache survives the write.
create_or_update_file_keepcache(content, shaArg, out) ==
  /\ out \in PutOutcomes(shaArg)
  /\ IF out = "ok"
       THEN /\ remote' = content
            /\ cache' = cache
       ELSE UNCHANGED <<remote, cache>>

\* create_or_update_file(filepath, content, sha), lines 65-85, with the
\* response out of the remote: on success the file holds content and every
\* st.cache_data cache is cleared; on a RequestException nothing changes.
create_or_update_file(content, shaArg, out) ==
  /\ out \in PutOutcomes(shaArg)
  /\ IF out = "ok"
       THEN /\ remote' = content
            /\ cache' = NoEntry
       ELSE UNCHANGED <<remote, cache>>

\* The entry st.cache_data serves: younger than the TTL.
CacheFresh == cache # NoEntry /\ now - cache.at < CacheTTL

\* The body of get_file_content, lines 51-62: (json, sha) of the file,
\* (None, None) on a 404 or when the request fails (ok = FALSE).
Fetch(ok) ==
  IF ok /\ remote # NoFile
    THEN [val |-> remote, sha |-> BlobSha(remote)]
    ELSE [val |-> None, sha |-> None]

\* What get_file_content(filepath) returns through @st.cache_data(ttl=60).
get_file_content(ok) == IF CacheFresh THEN [val |-> cache.val, sha |-> cache.sha] ELSE Fetch(ok)

\* The cache after that call: a miss stores the returned value.
CacheAfterRead(ok) ==
  IF CacheFresh THEN cache
  ELSE [val |-> Fetch(ok).val, sha |-> Fetch(ok).sha, at |-> now]

\* ------------------------------------------------------------ detail_view
Set(f, s, v) == [f EXCEPT ![s] = v]

user(s) == login[s].user

\* detail_view called without read_only=True whatever the URL.
read_only_off(s) == FALSE

read_only(s) == login[s].read_only

\* Line 282: the "Location & Actions" block is run.
Interactive(s) == ~read_only(s) /\ user(s).role \in {"admin", "vendor"}

\* Python truthiness of the component's value: a dict with keys is true.
Truthy(loc) == loc # None

\* "location and location.get('latitude') is not None"
HasFix(loc) == Truthy(loc) /\ "latitude" \in DOMAIN loc

\* Lines 290-291 with >= for >.
LastLogOld_ge(logs) ==
  IF Len(logs) = 0 THEN TRUE
  ELSE now - logs[Len(logs)].timestamp >= PeriodThreshold

\* Lines 290-291.
LastLogOld(logs) ==
  IF Len(logs) = 0 THEN TRUE
  ELSE now - logs[Len(logs)].timestamp > PeriodThreshold

\* Lines 287-291: the periodic logger writes in this run.
PeriodicDue(s) ==
  /\ Interactive(s)
  /\ data[s].status = "In Progress"
  /\ HasFix(location[s])
  /\ LastLogOld(data[s].logs)

\* The arguments the three on_click buttons pass to perform_action.
PerformArgs(t) ==
  CASE t = "Start" -> [new_status |-> "In Progress", action_text |-> "Work Started"]
    [] t = "Resume" -> [new_status |-> "In Progress", action_text |-> "Work Resumed"]
    [] t = "Complete" -> [new_status |-> "Completed", action_text |-> "Work Completed"]

\* disabled= of the buttons, lines 323-334, negated.
ButtonEnabled(t, status, loc) ==
  CASE t = "Start" -> ~(status # "Pending" \/ ~Truthy(loc))
    [] t = "Pause" -> ~(status # "In Progress")
    [] t = "Resume" -> ~(status # "Paused" \/ ~Truthy(loc))
    [] t = "Complete" -> ~(status \notin {"In Progress", "Paused"} \/ ~Truthy(loc))
    [] t = "Verify" -> ~(status # "Completed")

\* The page of session s shows the activity: its last run went through.
Rendered(s) == pc[s] = "idle" /\ data[s] # None

\* WithLog with the append left out.
WithLog_dropped(content, entry) == content

\* WithLog with the entry put first (logs.insert(0, ...)).
WithLog_first(content, entry) == [content EXCEPT !.logs = <<entry>> \o @]

\* activity_data['properties']['logs'].append(entry)
WithLog(content, entry) == [content EXCEPT !.logs = Append(@, entry)]
\* WithTrail that also moves the geofence centre to the observed location.
WithTrail_recenter(content, loc) ==
  [content EXCEPT !.location_trail = Append(@, TrailPoint(now, loc)),
                  !.geofence_center = <<loc.latitude, loc.longitude>>]

\* activity_data['properties']['location_trail'].append(...)
WithTrail(content, loc) ==
  [content EXCEPT !.location_trail = Append(@, TrailPoint(now, loc))]

\* The sessions of AuditCast and ShareCast follow the record one log entry
\* further.
LogCap == IF login \in {AuditCast, ShareCast} THEN MaxLogs + 1 ELSE MaxLogs

TypeOK ==
  /\ now \in Times
  /\ pc \in [Sessions -> {"idle", "callback", "load", "body"}]
  /\ login \in [Sessions -> Logins]
  /\ location \in [Sessions -> Locations]

\* The state in which the sessions cast open the application: no activity
\* has been created yet.
InitCast(cast) ==
  /\ now = 0
  /\ remote = NoFile
  /\ cache = NoEntry
  /\ login = cast
  /\ pc = [s \in Sessions |-> "idle"]
  /\ click = [s \in Sessions |-> "none"]
  /\ data = [s \in Sessions |-> None]
  /\ sha = [s \in Sessions |-> None]
  /\ location = [s \in Sessions |-> NoFix]
  /\ outcome = NoOutcome

Init == InitCast(FieldCast)
InitSolo == InitCast(SoloCast)
InitAudit == InitCast(AuditCast)
InitShare == InitCast(ShareCast)

\* The sessions of SoloCast open the application on a repository that is
\* empty or holds the activity file without geofence.
InitLegacy ==
  /\ now = 0
  /\ remote \in {NoFile, LegacyActivity}
  /\ cache = NoEntry
  /\ login = SoloCast
  /\ pc = [s \in Sessions |-> "idle"]
  /\ click = [s \in Sessions |-> "none"]
  /\ data = [s \in Sessions |-> None]
  /\ sha = [s \in Sessions |-> None]
  /\ location = [s \in Sessions |-> NoFix]
  /\ outcome = NoOutcome

\* Time passes.
Tick(d) ==
  /\ now + d <= MaxTime
  /\ now' = now + d
  /\ outcome' = NoOutcome
  /\ UNCHANGED <<remote, cache, login, pc, click, data, sha, location>>

\* create_activity_view, lines 370-386: an admin submits the form.  The file
\* name carries a timestamp and a uuid, so the path is a new one.
CreateActivity(s, radius, out) ==
  /\ pc[s] = "idle"
  /\ ~read_only(s) /\ user(s).role = "admin"
  /\ remote = NoFile
  /\ create_or_update_file(NewActivity(user(s).username, radius), None, out)
  /\ outcome' = [by |-> s, op |-> "Create", from |-> "none", put |-> out, token |-> None,
                 msgs |-> {"created"} \cup (IF out = "ok" THEN {} ELSE {"write_failed"})]
  /\ UNCHANGED <<now, login, pc, click, data, sha, location>>

\* The session opens or reloads the detail page: a row selected in the list
\* (lines 146-149, 247-253: a vendor is shown its own activities only), the
\* shared link, or the page's refresh.
OpenDetail(s) ==
  /\ pc[s] = "idle"
  /\ read_only(s) \/
       (remote # NoFile /\ (user(s).role = "vendor" => remote.vendor = user(s).username))
  /\ pc' = Set(pc, s, "load")
  /\ click' = Set(click, s, "none")
  /\ outcome' = NoOutcome
  /\ UNCHANGED <<now, remote, cache, login, data, sha, location>>

\* Line 285: the user shares a location; the component's new value reruns
\* the script.
ShareLocation(s, loc) ==
  /\ Rendered(s) /\ Interactive(s)
  /\ loc \in login[s].fixes /\ loc # location[s]
  /\ location' = Set(location, s, loc)
  /\ pc' = Set(pc, s, "load")
  /\ click' = Set(click, s, "none")
  /\ outcome' = NoOutcome
  /\ UNCHANGED <<now, remote, cache, login, data, sha>>

\* A click on Start, Resume or Complete as the page shows it: the rerun
\* begins with the on_click callback registered by the run that rendered
\* the button.
ClickPerform(s, t) ==
  /\ Rendered(s) /\ Interactive(s)
  /\ ButtonEnabled(t, data[s].status, location[s])
  /\ pc' = Set(pc, s, "callback")
  /\ click' = Set(click, s, t)
  /\ outcome' = NoOutcome
  /\ UNCHANGED <<now, remote, cache, login, data, sha, location>>

\* A click on Pause or Verify as the page shows it (Verify is rendered for
\* an admin only, line 333): st.button returns True in the rerun.
ClickButton(s, t) ==
  /\ Rendered(s) /\ Interactive(s)
  /\ t = "Verify" => user(s).role = "admin"
  /\ ButtonEnabled(t, data[s].status, location[s])
  /\ pc' = Set(pc, s, "load")
  /\ click' = Set(click, s, t)
  /\ outcome' = NoOutcome
  /\ UNCHANGED <<now, remote, cache, login, data, sha, location>>

\* The comment form is submitted with a text (lines 348-351).
SubmitComment(s, text) ==
  /\ Rendered(s) /\ ~read_only(s)
  /\ pc' = Set(pc, s, "load")
  /\ click' = Set(click, s, IF text # "" THEN "Comment" ELSE "none")
  /\ outcome' = NoOutcome
  /\ UNCHANGED <<now, remote, cache, login, data, sha, location>>

\* Line 309 with the radius taken for kilometres.
OutsideGeofence_km(distance, radius) == distance > radius * 1000

\* Line 309 with >= for >.
OutsideGeofence_ge(distance, radius) == distance >= radius

\* Line 309: distance > radius.
OutsideGeofence(distance, radius) == distance > radius

\* Line 308: the distance perform_action measures for session s.
Distance(s) ==
  haversine(location[s].longitude, location[s].latitude,
            data[s].geofence_center[2], data[s].geofence_center[1])

\* The outcome of a step that sent content derived from data[s] to the store.
Wrote(s, op, out, shown) ==
  [by |-> s, op |-> op, from |-> data[s].status, put |-> out, token |-> sha[s],
   msgs |-> shown \cup (IF out = "ok" THEN {} ELSE {"write_failed"})]

\* The outcome of a step that sent nothing.
Refused(s, shown) == [NoOutcome EXCEPT !.by = s, !.msgs = shown]

\* perform_action with lines 312-313 moved to its top: status and log entry
\* are set before the location and the geofence are looked at.
perform_action_early(s, new_status, action_text, out) ==
  LET props == data[s]
      loc == location[s]
      early == WithLog([props EXCEPT !.status = new_status],
                       LogEntry(now, user(s).username, action_text))
  IN
  IF ~HasFix(loc)
    THEN /\ outcome' = Refused(s, {"share_location"})
         /\ data' = Set(data, s, early)
         /\ UNCHANGED <<remote, cache>>
  ELSE IF props.geofence_center = <<>> \/ props.geofence_radius = 0
    THEN /\ outcome' = Refused(s, {"no_geofence"})
         /\ data' = Set(data, s, early)
         /\ UNCHANGED <<remote, cache>>
  ELSE IF OutsideGeofence(Distance(s), props.geofence_radius)
    THEN /\ outcome' = Refused(s, {"denied"})
         /\ data' = Set(data, s, early)
         /\ UNCHANGED <<remote, cache>>
  ELSE /\ Len(props.logs) < LogCap
       /\ create_or_update_file(WithTrail(early, loc), sha[s], out)
       /\ data' = Set(data, s, WithTrail(early, loc))
       /\ outcome' = Wrote(s, click[s], out, {"success"})

\* perform_action(new_status, action_text), lines 299-320, run as the
\* on_click callback with the activity_data, sha, props and location of the
\* run that rendered the button.  st.rerun() inside a callback does nothing;
\* the script body runs next.
perform_action(s, new_status, action_text, out) ==
  LET props == data[s]
      loc == location[s]
      center == props.geofence_center
      radius == props.geofence_radius
      mutated == WithTrail(WithLog([props EXCEPT !.status = new_status],
                                   LogEntry(now, user(s).username, action_text)), loc)
  IN
  IF ~HasFix(loc)
    THEN /\ outcome' = Refused(s, {"share_location"})
         /\ UNCHANGED <<remote, cache, data>>
  ELSE IF center = <<>> \/ radius = 0
    THEN /\ outcome' = Refused(s, {"no_geofence"})
         /\ UNCHANGED <<remote, cache, data>>
  ELSE IF OutsideGeofence(Distance(s), radius)
    THEN /\ outcome' = Refused(s, {"denied"})
         /\ UNCHANGED <<remote, cache, data>>
  ELSE /\ Len(props.logs) < LogCap
       /\ create_or_update_file(mutated, sha[s], out)
       /\ data' = Set(data, s, mutated)
       /\ outcome' = Wrote(s, click[s], out, {"success"})

Callback(s, out) ==
  /\ pc[s] = "callback"
  /\ perform_action(s, PerformArgs(click[s]).new_status, PerformArgs(click[s]).action_text, out)
  /\ pc' = Set(pc, s, "load")
  /\ click' = Set(click, s, "none")
  /\ UNCHANGED <<now, login, sha, location>>

\* Load with the activity kept from the previous run once it is there
\* (activity_data held in st.session_state).
Load_kept(s, ok) ==
  /\ pc[s] = "load"
  /\ data' = Set(data, s, IF data[s] # None THEN data[s] ELSE get_file_content(ok).val)
  /\ sha' = Set(sha, s, IF data[s] # None THEN sha[s] ELSE get_file_content(ok).sha)
  /\ cache' = CacheAfterRead(ok)
  /\ pc' = Set(pc, s, "body")
  /\ UNCHANGED <<now, remote, login, click, location, outcome>>

\* Load with the sha thrown away (activity_data, _ = get_file_content(filepath)).
Load_nosha(s, ok) ==
  /\ pc[s] = "load"
  /\ data' = Set(data, s, get_file_content(ok).val)
  /\ sha' = Set(sha, s, None)
  /\ cache' = CacheAfterRead(ok)
  /\ pc' = Set(pc, s, "body")
  /\ UNCHANGED <<now, remote, login, click, location, outcome>>

\* Line 257: activity_data, sha = get_file_content(filepath).
Load(s, ok) ==
  /\ pc[s] = "load"
  /\ data' = Set(data, s, get_file_content(ok).val)
  /\ sha' = Set(sha, s, get_file_content(ok).sha)
  /\ cache' = CacheAfterRead(ok)
  /\ pc' = Set(pc, s, "body")
  /\ UNCHANGED <<now, remote, login, click, location, outcome>>

\* Lines 258-259: nothing was loaded; the run ends.
BodyNotFound(s) ==
  /\ pc[s] = "body"
  /\ data[s] = None
  /\ pc' = Set(pc, s, "idle")
  /\ click' = Set(click, s, "none")
  /\ outcome' = Refused(s, {"not_found"})
  /\ UNCHANGED <<now, remote, cache, login, data, sha, location>>

\* Lines 287-297: the periodic logger appends, writes and reruns the script;
\* the rest of this run, the buttons and the form, is not reached.
BodyPeriodic(s, out) ==
  /\ pc[s] = "body"
  /\ data[s] # None
  /\ PeriodicDue(s)
  /\ Len(data[s].logs) < LogCap
  /\ LET mutated == WithTrail(WithLog(data[s], LogEntry(now, "System", "Periodic location check.")),
                              location[s])
     IN /\ create_or_update_file(mutated, sha[s], out)
        /\ data' = Set(data, s, mutated)
  /\ outcome' = Wrote(s, "Periodic", out, {})
  /\ pc' = Set(pc, s, "load")
  /\ click' = Set(click, s, "none")
  /\ UNCHANGED <<now, login, sha, location>>

\* Lines 325-329 and 334-338: st.button returned True for Pause or Verify.
BodyButton(s, t, new_status, action_text, out) ==
  /\ pc[s] = "body"
  /\ data[s] # None
  /\ Interactive(s) /\ ~PeriodicDue(s)
  /\ click[s] = t
  /\ t = "Verify" => user(s).role = "admin"
  /\ Len(data[s].logs) < LogCap
  /\ LET mutated == WithLog([data[s] EXCEPT !.status = new_status],
                            LogEntry(now, user(s).username, action_text))
     IN /\ create_or_update_file(mutated, sha[s], out)
        /\ data' = Set(data, s, mutated)
  /\ outcome' = Wrote(s, t, out, {})
  /\ pc' = Set(pc, s, "load")
  /\ click' = Set(click, s, "none")
  /\ UNCHANGED <<now, login, sha, location>>

BodyPause(s, out) == BodyButton(s, "Pause", "Paused", "Work Paused", out)

BodyVerify(s, out) == BodyButton(s, "Verify", "Verified", "Work Verified", out)

\* BodyComment with the entry appended twice.
BodyComment_twice(s, out) ==
  /\ pc[s] = "body"
  /\ data[s] # None
  /\ ~(Interactive(s) /\ PeriodicDue(s))
  /\ ~read_only(s)
  /\ click[s] = "Comment"
  /\ Len(data[s].logs) < LogCap
  /\ LET entry == LogEntry(now, user(s).username, "Comment: note")
         mutated == WithLog(WithLog(data[s], entry), entry)
     IN /\ create_or_update_file(mutated, sha[s], out)
        /\ data' = Set(data, s, mutated)
  /\ outcome' = Wrote(s, "Comment", out, {})
  /\ pc' = Set(pc, s, "load")
  /\ click' = Set(click, s, "none")
  /\ UNCHANGED <<now, login, sha, location>>

\* Lines 348-354: the comment form was submitted with a text.
BodyComment(s, out) ==
  /\ pc[s] = "body"
  /\ data[s] # None
  /\ ~(Interactive(s) /\ PeriodicDue(s))
  /\ ~read_only(s)
  /\ click[s] = "Comment"
  /\ Len(data[s].logs) < LogCap
  /\ LET mutated == WithLog(data[s], LogEntry(now, user(s).username, "Comment: note"))
     IN /\ create_or_update_file(mutated, sha[s], out)
        /\ data' = Set(data, s, mutated)
  /\ outcome' = Wrote(s, "Comment", out, {})
  /\ pc' = Set(pc, s, "load")
  /\ click' = Set(click, s, "none")
  /\ UNCHANGED <<now, login, sha, location>>

\* The run reaches the end of detail_view: nothing was clicked in it.
BodyRender(s) ==
  /\ pc[s] = "body"
  /\ data[s] # None
  /\ ~(Interactive(s) /\ PeriodicDue(s))
  /\ click[s] = "none"
  /\ pc' = Set(pc, s, "idle")
  /\ outcome' = NoOutcome
  /\ UNCHANGED <<now, remote, cache, login, click, data, sha, location>>

Next ==
  \/ \E d \in TickSteps : Tick(d)
  \/ \E s \in Sessions, r \in Radii, out \in {"ok", "conflict", "error"} : CreateActivity(s, r, out)
  \/ \E s \in Sessions : OpenDetail(s)
  \/ \E s \in Sessions, loc \in Fixes : ShareLocation(s, loc)
  \/ \E s \in Sessions, t \in {"Start", "Resume", "Complete"} : ClickPerform(s, t)
  \/ \E s \in Sessions, t \in {"Pause", "Verify"} : ClickButton(s, t)
  \/ \E s \in Sessions, text \in {"", "note"} : SubmitComment(s, text)
  \/ \E s \in Sessions, out \in {"ok", "conflict", "error"} : Callback(s, out)
  \/ \E s \in Sessions, ok \in BOOLEAN : Load(s, ok)
  \/ \E s \in Sessions : BodyNotFound(s)
  \/ \E s \in Sessions, out \in {"ok", "conflict", "error"} : BodyPeriodic(s, out)
  \/ \E s \in Sessions, out \in {"ok", "conflict", "error"} : BodyPause(s, out)
  \/ \E s \in Sessions, out \in {"ok", "conflict", "error"} : BodyVerify(s, out)
  \/ \E s \in Sessions, out \in {"ok", "conflict", "error"} : BodyComment(s, out)
  \/ \E s \in Sessions : BodyRender(s)

Spec == Init /\ [][Next]_vars
SpecSolo == InitSolo /\ [][Next]_vars
SpecAudit == InitAudit /\ [][Next]_vars
SpecLegacy == InitLegacy /\ [][Next]_vars
SpecShare == InitShare /\ [][Next]_vars

\* The script of a session runs to its end: Streamlit's script thread takes
\* the next step of a run it has started, and a PUT of the periodic logger
\* that can be accepted is accepted in the end.
RunsOn(s) ==
  /\ WF_vars(\E ok \in BOOLEAN : Load(s, ok))
  /\ SF_vars(BodyPeriodic(s, "ok"))

SpecLive == Init /\ [][Next]_vars /\ \A s \in Sessions : RunsOn(s)

\* ------------------------------------------------------------- properties
IsPrefix(a, b) == Len(a) <= Len(b) /\ SubSeq(b, 1, Len(a)) = a

\* The step is a call of create_or_update_file by session s.
WriteStep(s) ==
  /\ pc[s] \in {"callback", "body"}
  /\ pc'[s] = "load"
  /\ outcome'.put # "none"

\* C1: a write to the existing file that carries a stale sha (the file has
\* been written since the sha was read) is answered with a conflict, or
\* fails before it is answered, and leaves the file and its sha as they were;
\* the session sends it once and goes on to rerun the script.
C1_StaleWriteIsConflict ==
  [][\A s \in Sessions :
       (WriteStep(s) /\ remote # NoFile /\ sha[s] # BlobSha(remote))
         => /\ outcome'.put \in {"conflict", "error"}
            /\ outcome'.token = sha[s]
            /\ remote' = remote]_vars

\* A session has just been refused a write for its stale sha.
C1_Witness ==
  /\ outcome.put = "conflict"
  /\ remote # NoFile
  /\ outcome.token # BlobSha(remote)
  /\ pc[outcome.by] = "load"

C3_CacheHoldsCurrent ==
  /\ (cache # NoEntry /\ cache.val # None) => (cache.val = remote /\ cache.sha = BlobSha(remote))
  /\ \A s \in Sessions :
       (outcome.by = s /\ outcome.put = "ok" /\ pc[s] = "body" /\ data[s] # None)
         => (data[s] = remote /\ sha[s] = BlobSha(remote))

\* A session has read back, from the cache inside its TTL, what it wrote.
C3_Witness ==
  \E s \in Sessions :
    /\ outcome.by = s /\ outcome.put = "ok" /\ outcome.op = "Pause" /\ pc[s] = "body"
    /\ CacheFresh /\ cache.val = remote
    /\ data[s] = remote /\ data[s].status = "Paused"

\* C4: the logs of the file only grow at the end: each version of the file
\* has the logs of the version before it as a prefix.
C4_LogsAppendOnly ==
  [][remote # NoFile => (remote' # NoFile /\ IsPrefix(remote.logs, remote'.logs))]_vars

\* The file holds a transition of the vendor, a periodic check and a
\* comment of the admin, one after the other.
C4_Witness ==
  /\ remote # NoFile
  /\ Len(remote.logs) = 4
  /\ remote.logs[2] = LogEntry(0, Vendor.username, "Work Started")
  /\ remote.logs[3].user = "System"
  /\ remote.logs[4].user = Admin.username /\ remote.logs[4].action = "Comment: note"

\* The transition table: the statuses a transition is allowed from, and the
\* edges it draws.
Transitions == {"Start", "Pause", "Resume", "Complete", "Verify"}

AllowedFrom(t) ==
  CASE t = "Start" -> {"Pending"}
    [] t = "Pause" -> {"In Progress"}
    [] t = "Resume" -> {"Paused"}
    [] t = "Complete" -> {"In Progress", "Paused"}
    [] t = "Verify" -> {"Completed"}

ResultOf(t) ==
  CASE t = "Start" -> "In Progress"
    [] t = "Pause" -> "Paused"
    [] t = "Resume" -> "In Progress"
    [] t = "Complete" -> "Completed"
    [] t = "Verify" -> "Verified"

Edges == UNION { { <<from, ResultOf(t)>> : from \in AllowedFrom(t) } : t \in Transitions }

\* C5: from one version of the file to the next the status stays or moves
\* along an edge of the transition table; Verified is never left.
C5_StatusFollowsTable ==
  [][(remote # NoFile /\ remote' # remote)
       => (remote'.status = remote.status \/ <<remote.status, remote'.status>> \in Edges)]_vars

\* C6: no write is issued for a transition applied to a record whose status
\* is outside the transition's allowed-from set.
C6_IllegalTransitionNotWritten ==
  (outcome.op \in Transitions /\ outcome.put # "none") => outcome.from \in AllowedFrom(outcome.op)

\* The step is the on_click callback of session s, run to its end.
CallbackStep(s) == pc[s] = "callback" /\ pc'[s] = "load"

\* C7: Start, Resume or Complete with an observed location farther from the
\* centre than the radius is denied: nothing is sent to the store and the
\* file (status, logs, trail) is as before.
C7_OutsideIsDenied ==
  [][\A s \in Sessions :
       (CallbackStep(s) /\ HasFix(location[s]) /\ Distance(s) > data[s].geofence_radius)
         => /\ outcome' = Refused(s, {"denied"})
            /\ remote' = remote]_vars

\* A Complete has just been denied to a session standing outside.
C7_Witness ==
  /\ outcome.msgs = {"denied"}
  /\ location[outcome.by] = Outside
  /\ remote # NoFile /\ remote.status = "In Progress"
  /\ data[outcome.by] = remote

\* C8: Start, Resume or Complete with an observed location at most the
\* radius from the centre (the boundary included) passes the gate: the record
\* sent has the transition's status, exactly one more log entry (the
\* transition's text, by the acting user) and exactly one more trail point
\* (the observed coordinates), and it becomes the file when the store
\* accepts the write.
C8_InsideSucceeds ==
  [][\A s \in Sessions :
       (CallbackStep(s) /\ HasFix(location[s]) /\ Distance(s) <= data[s].geofence_radius)
         => /\ outcome'.op = click[s] /\ outcome'.put # "none"
            /\ outcome'.from \in AllowedFrom(click[s])
            /\ data'[s].status = ResultOf(click[s])
            /\ data'[s].logs =
                 Append(data[s].logs,
                        LogEntry(now, user(s).username, PerformArgs(click[s]).action_text))
            /\ data'[s].location_trail =
                 Append(data[s].location_trail,
                        TrailPoint(now, location[s]))
            /\ outcome'.put = "ok" =>
                 /\ remote' = data'[s]
                 /\ remote'.status = ResultOf(click[s])
                 /\ Len(remote'.logs) = Len(remote.logs) + 1
                 /\ Len(remote'.location_trail) = Len(remote.location_trail) + 1]_vars

\* A Resume from the boundary of the geofence has been written.
C8_Witness ==
  /\ outcome.op = "Resume" /\ outcome.put = "ok"
  /\ location[outcome.by] = OnBoundary
  /\ remote.status = "In Progress"
  /\ Len(remote.location_trail) = 2

\* C9: a Verify is written only by an admin and only onto a record whose
\* status is Completed.
C9_VerifyOnlyAdminOnCompleted ==
  (outcome.op = "Verify" /\ outcome.put = "ok")
    => (user(outcome.by).role = "admin" /\ outcome.from = "Completed")

\* C10: nothing is sent to the store for a user whose role is neither admin
\* nor vendor.
C10_WritersAreAdminOrVendor ==
  outcome.put # "none" => user(outcome.by).role \in {"admin", "vendor"}

\* The action text a transition's handler logs (lines 323, 327, 330, 331, 336).
ActionText(t) ==
  CASE t \in {"Start", "Resume", "Complete"} -> PerformArgs(t).action_text
    [] t = "Pause" -> "Work Paused"
    [] t = "Verify" -> "Work Verified"

\* C11: from one version of the file to the next, a change of status comes
\* with exactly one more log entry, appended in the same write: the entry of
\* the transition that was written, with its action text and the user who
\* made it.
C11_StatusChangeLogsOnce ==
  [][(remote # NoFile /\ remote' # NoFile /\ remote'.status # remote.status)
       => /\ outcome'.op \in Transitions
          /\ remote'.status = ResultOf(outcome'.op)
          /\ remote'.logs =
               Append(remote.logs,
                      LogEntry(now, user(outcome'.by).username, ActionText(outcome'.op)))]_vars

\* The file has been started, paused and resumed: three changes of status,
\* each with its entry.
C11_Witness ==
  /\ remote # NoFile
  /\ outcome.op = "Resume" /\ outcome.put = "ok"
  /\ Len(remote.logs) = 4
  /\ remote.logs[3].action = "Work Paused"
  /\ remote.logs[4].action = "Work Resumed"

\* The record read by session s has no geofence centre or no radius.
NoGeofence(s) == data[s].geofence_center = <<>> \/ data[s].geofence_radius = 0

\* C12: Start, Resume or Complete without an observed location is refused
\* with the request to share the location, and on a record without geofence
\* centre or radius it is refused for the missing geofence; either way
\* nothing is sent to the store and neither the file nor the record in hand
\* is changed.  So whatever such a transition sends had both.
C12_GateNeedsLocationAndGeofence ==
  [][\A s \in Sessions :
       CallbackStep(s) =>
         /\ ~HasFix(location[s]) =>
              (outcome' = Refused(s, {"share_location"}) /\ remote' = remote /\ data'[s] = data[s])
         /\ (HasFix(location[s]) /\ NoGeofence(s)) =>
              (outcome' = Refused(s, {"no_geofence"}) /\ remote' = remote /\ data'[s] = data[s])
         /\ outcome'.put # "none" => (HasFix(location[s]) /\ ~NoGeofence(s))]_vars

\* A Start on the file without geofence, from a session that shares its
\* location, has just been refused.
C12_Witness ==
  /\ outcome.msgs = {"no_geofence"}
  /\ HasFix(location[outcome.by])
  /\ remote = LegacyActivity
  /\ data[outcome.by] = remote
  /\ pc[outcome.by] = "load"

\* C13: a transition is reported as successful only if the store accepted
\* its write; a write that was refused or failed is reported as a failure
\* and not as a success.
C13_SuccessOnlyIfAcknowledged ==
  /\ "success" \in outcome.msgs => outcome.put = "ok"
  /\ (outcome.op \in Transitions /\ outcome.put \in {"conflict", "error"})
       => ("write_failed" \in outcome.msgs /\ "success" \notin outcome.msgs)

\* The step is the periodic logger of some session reaching the store.
PeriodicStep == \E s \in Sessions : WriteStep(s) /\ outcome'.by = s /\ outcome'.op = "Periodic"

\* C14: the periodic logger's entry and trail point are committed only onto
\* a file whose status is In Progress, and leave it In Progress; a logger
\* whose copy still shows In Progress while the file has moved on is refused
\* and the file stays as it is.
C14_PeriodicOnlyInProgress ==
  [][PeriodicStep =>
       /\ remote # NoFile
       /\ outcome'.put = "ok" => (remote.status = "In Progress" /\ remote'.status = "In Progress")
       /\ remote.status # "In Progress" => (outcome'.put # "ok" /\ remote' = remote)]_vars

\* The logger of a session that had read the file In Progress has just been
\* refused: the other session paused the work in between.
C14_Witness ==
  /\ outcome.op = "Periodic" /\ outcome.put = "conflict" /\ outcome.from = "In Progress"
  /\ remote # NoFile /\ remote.status = "Paused"
  /\ remote.logs[Len(remote.logs)].action = "Work Paused"

\* The periodic logger of session s was refused / was accepted.
PeriodicRefused(s) == outcome.by = s /\ outcome.op = "Periodic" /\ outcome.put = "conflict"
PeriodicWritten(s) == outcome.by = s /\ outcome.op = "Periodic" /\ outcome.put = "ok"

\* What ends the logger's duty towards session s: the work is no longer In
\* Progress, the file's last entry is not older than the threshold, another
\* session has written, the read of the file failed, or the record is full.
Released(s) ==
  \/ remote = NoFile
  \/ remote.status # "In Progress"
  \/ ~LastLogOld(remote.logs)
  \/ (outcome.by # s /\ outcome.put = "ok")
  \/ (pc[s] # "load" /\ data[s] = None)
  \/ Len(remote.logs) >= LogCap

C16_TrailOnlyInProgress ==
  [][(remote # NoFile /\ remote' # NoFile /\ remote'.location_trail # remote.location_trail)
       => (remote.status = "In Progress" \/ remote'.status = "In Progress")]_vars

\* C17: a session that views the activity through the shared link sends
\* nothing to the store, in no status of the record and at no age of its last
\* entry: it has no location, no button, no callback and no comment form.
C17_ReadOnlyNeverWrites ==
  \A s \in Sessions :
    login[s].read_only =>
      /\ outcome.by = s => outcome.put = "none"
      /\ location[s] = NoFix
      /\ click[s] = "none"
      /\ pc[s] # "callback"

\* The shared link shows a record In Progress whose last entry is older than
\* the logger's threshold.
C17_Witness ==
  \E s \in Sessions :
    /\ login[s].read_only
    /\ Rendered(s) /\ data[s] = remote
    /\ data[s].status = "In Progress"
    /\ LastLogOld(data[s].logs)
    /\ outcome = NoOutcome

\* The operations that change an existing record.
Mutations == Transitions \cup {"Comment", "Periodic"}

\* C18: every write that changes the existing record carries the sha that
\* was read together with the content it was derived from, and is accepted
\* only if that sha is the file's current one; the write that creates the
\* file is the only one without a sha.
C18_MutationsCarryReadSha ==
  [][\A s \in Sessions :
       WriteStep(s) =>
         /\ outcome'.op \in Mutations
         /\ outcome'.token = sha[s]
         /\ sha[s] = BlobSha(data[s])
         /\ IsPrefix(data[s].logs, data'[s].logs)
         /\ outcome'.put = "ok" => (outcome'.token = BlobSha(remote) /\ remote' = data'[s])]_vars
  /\ [](outcome.put # "none" => (outcome.token = None <=> outcome.op = "Create"))

\* A Verify has been accepted with the sha of the Completed record it was
\* derived from.
C18_Witness ==
  /\ outcome.op = "Verify" /\ outcome.put = "ok"
  /\ outcome.token # None
  /\ outcome.token.blob.status = "Completed"
  /\ remote.status = "Verified"

\* The entry the periodic logger appends.
PeriodicEntry(t) == LogEntry(t, "System", "Periodic location check.")

\* Session s holds a location and a record whose last entry is more than
\* 25 s old.
Overdue(s) ==
  /\ HasFix(location[s])
  /\ Len(data[s].logs) > 0 => now - data[s].logs[Len(data[s].logs)].timestamp > 25

\* C19: the periodic logger writes only with a location at hand and a last
\* entry more than 25 s old, and then appends one System entry and one trail
\* point; a run in which nothing was clicked and these conditions fail
\* appends nothing and sends nothing.  So in every version of the file a
\* periodic entry is more than 25 s later than the entry before it.
C19_PeriodicRateBounded ==
  /\ [][\A s \in Sessions :
          /\ (PeriodicStep /\ outcome'.by = s) =>
               /\ Overdue(s)
               /\ data'[s].logs = Append(data[s].logs, PeriodicEntry(now))
               /\ data'[s].location_trail =
                    Append(data[s].location_trail, TrailPoint(now, location[s]))
               /\ data'[s].status = data[s].status
          /\ (pc[s] = "body" /\ pc'[s] # "body" /\ data[s] # None /\ click[s] = "none"
                /\ ~Overdue(s))
               => (outcome'.put = "none" /\ remote' = remote)]_vars
  /\ [](remote # NoFile =>
          \A i \in 2..Len(remote.logs) :
            remote.logs[i].user = "System"
              => remote.logs[i].timestamp - remote.logs[i - 1].timestamp > 25)

\* The file holds a periodic entry, written 26 s after the start of the
\* work, with its trail point.
C19_Witness ==
  /\ PeriodicWritten("s1")
  /\ remote.logs[Len(remote.logs)] = PeriodicEntry(26)
  /\ remote.logs[Len(remote.logs) - 1].timestamp = 0
  /\ Len(remote.location_trail) = 2

\* The text of the entry that Pause, Verify or Comment appends.
EntryText(op) == IF op = "Comment" THEN "Comment: note" ELSE ActionText(op)

\* C20: a Pause, a Verify or a Comment sends the record it read with exactly
\* one more log entry (its text, the acting user, the current time) and the
\* trail as it was; a Comment sends the status as it was too; and a comment
\* submitted is sent whatever the status of the record, Verified included.
C20_PauseVerifyCommentFrame ==
  [][\A s \in Sessions :
       /\ (WriteStep(s) /\ outcome'.op \in {"Pause", "Verify", "Comment"}) =>
            /\ data'[s].logs =
                 Append(data[s].logs, LogEntry(now, user(s).username, EntryText(outcome'.op)))
            /\ data'[s].location_trail = data[s].location_trail
            /\ outcome'.op = "Comment" => data'[s].status = data[s].status
            /\ outcome'.put = "ok" =>
                 /\ Len(remote'.logs) = Len(remote.logs) + 1
                 /\ remote'.location_trail = remote.location_trail
                 /\ outcome'.op = "Comment" => remote'.status = remote.status
       /\ (pc[s] = "body" /\ pc'[s] # "body" /\ data[s] # None /\ click[s] = "Comment"
             /\ ~PeriodicDue(s))
            => (outcome'.op = "Comment" /\ outcome'.put # "none")]_vars

\* A comment has been written onto the Verified record.
C20_Witness ==
  /\ outcome.op = "Comment" /\ outcome.put = "ok" /\ outcome.from = "Verified"
  /\ remote.status = "Verified"
  /\ remote.logs[Len(remote.logs)].action = "Comment: note"
  /\ remote.logs[Len(remote.logs) - 1].action = "Work Verified"

\* The fields of a record that create_activity_view sets and no handler of
\* detail_view assigns.
Fixed(r) == <<r.id, r.geometry, r.vendor, r.geofence_center, r.geofence_radius, r.createdAt>>

\* C21: id, geometry, vendor, geofence centre, geofence radius and createdAt
\* are the same in every version of the file, whatever transition, comment or
\* periodic update wrote it, and the radius is positive in every version.
C21_CreationFieldsFixed ==
  /\ [][remote # NoFile => (remote' # NoFile /\ Fixed(remote') = Fixed(remote))]_vars
  /\ [][\A s \in Sessions :
          (WriteStep(s) /\ data[s] # None) => Fixed(data'[s]) = Fixed(data[s])]_vars
  /\ [](remote # NoFile => remote.geofence_radius > 0)

\* The file created at time 0 has been started, logged by the periodic
\* logger and completed, and still has the fields it was created with.
C21_Witness ==
  /\ remote # NoFile
  /\ remote.status = "Completed"
  /\ Len(remote.logs) = 4 /\ Len(remote.location_trail) = 3
  /\ remote.logs[3] = PeriodicEntry(26)
  /\ Fixed(remote) =
       <<"uuid", <<CenterLon, CenterLat>>, Vendor.username, <<CenterLat, CenterLon>>, MinRadius, 0>>

\* C22: a Pause click or a submitted comment of an admin or vendor on a
\* record In Progress is applied in the run that handles it: that run sends
\* the Pause or the comment to the store, whether or not the periodic logger
\* is due in it.
C22_ClickNotDropped ==
  [][\A s \in Sessions :
       (/\ pc[s] = "body" /\ pc'[s] # "body"
        /\ data[s] # None /\ data[s].status = "In Progress"
        /\ Interactive(s)
        /\ click[s] \in {"Pause", "Comment"})
         => (outcome'.by = s /\ outcome'.op = click[s] /\ outcome'.put # "none")]_vars

====
